---- MODULE Spec2Model ----
(***************************************************************************)
(* Model of pkg/spawner: the patient-pod cycle of Spawner.Run under        *)
(* Spawner.RunScheduled, the deferred cleanupPod, and waitForIP with the   *)
(* shared informer it runs on the stop channel c.                          *)
(*                                                                         *)
(* The informer is client-go's: informer.Run(c) runs controller.Run(c),    *)
(* whose goroutines all receive from the one stop channel:                 *)
(*   - the queue closer   go func() { <-stopCh; Queue.Close() }            *)
(*   - the reflector      ListAndWatch's selects and BackoffUntil's select *)
(*   - the resync goroutine of ListAndWatch                                *)
(*   - wait.Until(processLoop, time.Second, stopCh)                        *)
(* and whose event handlers run on the processor listener's goroutine.     *)
(* informer.Run returns when the process loop and the reflector have both  *)
(* stopped and the listener's goroutines have finished.  waitForIP never   *)
(* closes c before informer.Run returns; its handlers SEND one value on c, *)
(* and one value is received by exactly one of the receivers.              *)
(***************************************************************************)
EXTENDS Integers, Sequences, FiniteSets, TLC

\* Bounds of the model.
MaxCycles == 2      \* ticks of RunScheduled that are explored
MaxEnv == 5         \* status updates / deletions done by the rest of the cluster
MaxSignals == 5     \* values received from c in one waitForIP that are explored

MaxAddrLen == 6     \* characters of an address given to getPodSDHostname
MaxContainers == 2  \* containers declared by a pod template
MaxVolumes == 2     \* volumes declared by a pod template document

NoCall == [fn |-> "none"]
Pending == <<"pending">>       \* the result of a call that has not returned

ParentName == "nurse"          \* os.Hostname()
ParentIP == "10.0.0.1"
ChildIP == "10.0.0.2"
NoIP == ""

VARIABLES
    cycle,      \* number of ticks of RunScheduled so far
    pc,         \* position of the RunScheduled/Run goroutine
    result,     \* value returned by Run ("none" while it has not returned)
    expired,    \* the cycle's ctx (120 s) is past its deadline
    tmplOK,     \* spw.PodTemplate decodes to a Pod
    pods,       \* the namespace: set of [name, ip]
    podName,    \* pod.Name of the pod created in this cycle ("" if none)
    deferred,   \* defer spw.cleanupPod(clientset, pod) is registered
    trace,      \* the calls of this cycle, in order: [op, out]
    envSteps,   \* changes made so far by the rest of the cluster
    chanC,      \* the channel c of waitForIP: "none", "open", "closed"
    closer,     \* goroutine <-stopCh; Queue.Close(): "none", "wait", "done"
    reflector,  \* "none", "list", "watch", "backoff", "stopped"
    resyncer,   \* ListAndWatch's resync goroutine is selecting on stopCh
    watchCh,    \* events of the open watch not yet read by the reflector
    fifo,       \* the DeltaFIFO
    indexer,    \* the informer's store: set of [name, ip]
    until,      \* wait.Until(processLoop): "none", "pop", "sleep", "stopped"
    pending,    \* notifications buffered by the processor listener
    handler,    \* listener goroutine: "none", "idle", "sending", "stopped"
    delivered,  \* values received from c during this waitForIP
    lateEvent,  \* the cluster changed the child after waitForIP returned
    call        \* a call of one of the package's functions taken alone:
                \* [fn, in, out], or NoCall while Run is what is modelled

runVars == <<cycle, pc, result, expired, tmplOK, pods, podName, deferred, trace,
             envSteps, chanC, closer, reflector, resyncer, watchCh, fifo,
             indexer, until, pending, handler, delivered, lateEvent>>
infVars == <<chanC, closer, reflector, resyncer, watchCh, fifo, indexer, until,
             pending, handler, delivered>>
vars == <<cycle, pc, result, expired, tmplOK, pods, podName, deferred, trace,
          envSteps, chanC, closer, reflector, resyncer, watchCh, fifo, indexer,
          until, pending, handler, delivered, lateEvent, call>>

----------------------------------------------------------------------------
\* Helpers on the namespace.

Names(ps) == {p.name : p \in ps}
PodOf(ps, n) == CHOOSE p \in ps : p.name = n
Without(ps, n) == {p \in ps : p.name # n}

RECURSIVE SeqOf(_)
SeqOf(S) == IF S = {} THEN <<>>
            ELSE LET x == CHOOSE y \in S : TRUE IN <<x>> \o SeqOf(S \ {x})

\* A change of the namespace reaches the reflector only through an open watch.
Watched(ev) == IF reflector = "watch" THEN Append(watchCh, ev) ELSE watchCh

----------------------------------------------------------------------------
\* Pure parts of the source.

\* configurePod: tmpl.ObjectMeta.Name = parent.GetName() + "-patient"
configurePodNamePerCycle(parent) == parent \o "-patient-" \o ToString(cycle)
configurePodName(parent) == parent \o "-patient"

\* Strings are sequences of characters.  strings.Replace(s, old, new, n) for a
\* one-character old: the first n occurrences are replaced, all of them if n < 0.
RECURSIVE Replace(_, _, _, _)
Replace(s, old, new, n) ==
    IF s = <<>> \/ n = 0 THEN s
    ELSE IF Head(s) = old THEN <<new>> \o Replace(Tail(s), old, new, n - 1)
    ELSE <<Head(s)>> \o Replace(Tail(s), old, new, n)

\* getPodSDHostname: strings.Replace(p.Status.PodIP, ".", "-", 4), then
\* fmt.Sprintf("%s.default.pod.cluster.local", ip)
ReplaceLimit == 4
SDSuffix == <<".default.pod.cluster.local">>
getPodSDHostname(ip) == Replace(ip, ".", "-", ReplaceLimit) \o SDSuffix

\* fmt.Sprintf("http://%s:8080", host)
DirectURL(host) == <<"http://">> \o host \o <<":8080">>

\* A pod value: the fields of apiv1.Pod the package reads or writes.
ZeroPod == [name |-> "", owners |-> <<>>, containers |-> <<>>, volumes |-> <<>>]
ZeroContainer == [name |-> "", image |-> "", args |-> <<>>, env |-> <<>>]
Nil == [nil |-> TRUE]

\* configurePod, the environment list assigned to Containers[0].Env
PatientEnv(spw, parent) ==
    << [name |-> "KUBENURSE_DIRECT_URL", value |-> DirectURL(parent.ip)],
       [name |-> "KUBENURSE_DNS_URL",
        value |-> DirectURL(getPodSDHostname(parent.ip))],
       [name |-> "KUBENURSE_INGRESS_URL", value |-> spw.IngressURL],
       [name |-> "KUBENURSE_SERVICE_URL", value |-> spw.ServiceURL] >>

\* configurePod, the containers after the len(tmpl.Spec.Containers) == 0 branch
PatientContainers(tmpl) ==
    IF Len(tmpl.containers) = 0
    THEN << [ZeroContainer EXCEPT !.name = "patient", !.args = <<"patient">>] >>
    ELSE tmpl.containers

\* (the environment of the template is kept and the four entries appended)
configurePodMergesEnv(spw, tmpl, parent) ==
    LET cs == PatientContainers(tmpl) IN
    [tmpl EXCEPT
       !.name = configurePodName(parent.name),
       !.owners = << [apiVersion |-> "v1", kind |-> "Pod",
                      name |-> parent.name, uid |-> parent.uid] >>,
       !.containers = [cs EXCEPT ![1] =
                          [@ EXCEPT !.image = spw.PatientImage,
                                    !.env = @ \o PatientEnv(spw, parent)]]]

\* (the containers of the template are dropped for the synthesized one)
configurePodResetsContainers(spw, tmpl, parent) ==
    LET cs == PatientContainers([tmpl EXCEPT !.containers = <<>>]) IN
    [tmpl EXCEPT
       !.name = configurePodName(parent.name),
       !.owners = << [apiVersion |-> "v1", kind |-> "Pod",
                      name |-> parent.name, uid |-> parent.uid] >>,
       !.containers = [cs EXCEPT ![1] =
                          [@ EXCEPT !.image = spw.PatientImage,
                                    !.env = PatientEnv(spw, parent)]]]

\* configurePod: the template after the in-place changes
configurePod(spw, tmpl, parent) ==
    LET cs == PatientContainers(tmpl) IN
    [tmpl EXCEPT
       !.name = configurePodName(parent.name),
       !.owners = << [apiVersion |-> "v1", kind |-> "Pod",
                      name |-> parent.name, uid |-> parent.uid] >>,
       !.containers = [cs EXCEPT ![1] =
                          [@ EXCEPT !.image = spw.PatientImage,
                                    !.env = PatientEnv(spw, parent)]]]

\* A template is nil, empty, or the bytes of a document; a document is taken
\* by what the deserializer reads from it: whether it parses, the kind it
\* declares ("" when it declares none), the fields of a pod it declares, and
\* whether it carries a field the Pod type does not have.
RegisteredKinds == {"Pod", "Service"}
IsEmpty(tmpl) == tmpl.bytes \in {"nil", "empty"}

\* The kind the deserializer reports: the declared one, defaulted from the
\* type of the object decoded into (a Pod) when the document declares none.
DecodedKind(tmpl) == IF IsEmpty(tmpl) \/ tmpl.kind = "" THEN "Pod" ELSE tmpl.kind

\* The object the deserializer fills: the pod passed in, when the kind is Pod.
DecodedPod(tmpl) ==
    IF IsEmpty(tmpl) THEN ZeroPod
    ELSE [ZeroPod EXCEPT !.name = tmpl.name,
                         !.containers = tmpl.containers,
                         !.volumes = tmpl.volumes]

\* (nil and empty input are refused)
decodePodTemplateRejectsEmpty(tmpl) ==
    IF IsEmpty(tmpl) \/ ~tmpl.wellFormed
    THEN [pod |-> Nil, err |-> "deserializing pod template"]
    ELSE IF DecodedKind(tmpl) \notin RegisteredKinds
    THEN [pod |-> Nil, err |-> "deserializing pod template"]
    ELSE IF DecodedKind(tmpl) # "Pod"
    THEN [pod |-> Nil, err |-> "pod template is not of type Pod"]
    ELSE [pod |-> DecodedPod(tmpl), err |-> "nil"]

\* decodePodTemplate
decodePodTemplate(tmpl) ==
    IF ~IsEmpty(tmpl) /\ ~tmpl.wellFormed
    THEN [pod |-> Nil, err |-> "deserializing pod template"]
    ELSE IF DecodedKind(tmpl) \notin RegisteredKinds
    THEN [pod |-> Nil, err |-> "deserializing pod template"]
    ELSE IF DecodedKind(tmpl) # "Pod"
    THEN [pod |-> Nil, err |-> "pod template is not of type Pod"]
    ELSE [pod |-> DecodedPod(tmpl), err |-> "nil"]

\* checkForIP: p.Name == podName && p.Status.PodIP != ""
checkForIPAnyPod(p, name) == p.ip # NoIP
checkForIP(p, name) == p.name = name /\ p.ip # NoIP

\* Run registers "defer spw.cleanupPod" only after the create call succeeded.
deferNever(createOut) == FALSE
deferAlways(createOut) == TRUE
deferRegistered(createOut) == createOut = "ok"

\* cleanupPod has no result: its delete error is logged and Run's value stays.
cleanupPodEscalates(res, out) == IF out = "ok" THEN res ELSE "cleanupErr"
cleanupPodResult(res, out) == res

\* Pods(ns).Delete(ctx, name): outcome and effect on the namespace.
DeleteOut(ps, name, apiOK) ==
    IF ~apiOK THEN "err" ELSE IF name \in Names(ps) THEN "ok" ELSE "notfound"
DeleteEffect(ps, name, out) == IF out = "ok" THEN Without(ps, name) ELSE ps

\* sharedIndexInformer.HandleDeltas: the notification of one delta and the store.
Notification(ev) ==
    IF ev.type = "deleted"
    THEN [kind |-> "delete", obj |-> ev.obj, tomb |-> ev.tomb]
    ELSE [kind |-> IF ev.obj.name \in Names(indexer) THEN "update" ELSE "add",
          obj |-> ev.obj, tomb |-> FALSE]
Stored(ev) ==
    IF ev.type = "deleted" THEN Without(indexer, ev.obj.name)
    ELSE Without(indexer, ev.obj.name) \cup {ev.obj}

Event(type, p) == [type |-> type, obj |-> p, tomb |-> FALSE]

----------------------------------------------------------------------------
TypeOK ==
    /\ cycle \in 0..MaxCycles
    /\ pc \in {"tick", "decode", "get", "create", "wait", "delete", "defer",
               "returned", "crashed"}
    /\ result \in {"none", "nil", "decodeErr", "getErr", "createErr",
                   "deleteErr", "cleanupErr"}
    /\ expired \in BOOLEAN /\ tmplOK \in BOOLEAN /\ deferred \in BOOLEAN
    /\ envSteps \in 0..MaxEnv
    /\ chanC \in {"none", "open", "closed"}
    /\ closer \in {"none", "wait", "done"}
    /\ reflector \in {"none", "list", "watch", "backoff", "stopped"}
    /\ until \in {"none", "pop", "sleep", "stopped"}
    /\ handler \in {"none", "idle", "sending", "stopped"}
    /\ resyncer \in BOOLEAN /\ lateEvent \in BOOLEAN
    /\ delivered \in Nat

NoInformer ==
    /\ chanC' = "none" /\ closer' = "none" /\ reflector' = "none"
    /\ resyncer' = FALSE /\ watchCh' = <<>> /\ fifo' = <<>> /\ indexer' = {}
    /\ until' = "none" /\ pending' = <<>> /\ handler' = "none"
    /\ delivered' = 0

Init ==
    /\ cycle = 0 /\ pc = "tick" /\ result = "none" /\ expired = FALSE
    /\ tmplOK \in BOOLEAN
    /\ pods = {[name |-> ParentName, ip |-> ParentIP]}
    /\ podName = "" /\ deferred = FALSE /\ trace = <<>> /\ envSteps = 0
    /\ chanC = "none" /\ closer = "none" /\ reflector = "none"
    /\ resyncer = FALSE /\ watchCh = <<>> /\ fifo = <<>> /\ indexer = {}
    /\ until = "none" /\ pending = <<>> /\ handler = "none"
    /\ delivered = 0 /\ lateEvent = FALSE
    /\ call = NoCall

----------------------------------------------------------------------------
\* RunScheduled and Run.

\* for range time.Tick(d) { ctx, cancel := WithTimeout(120s); spw.Run(ctx, cs)
Tick ==
    /\ pc = "tick" /\ cycle < MaxCycles
    /\ cycle' = cycle + 1 /\ pc' = "decode"
    /\ result' = "none" /\ expired' = FALSE /\ podName' = ""
    /\ deferred' = FALSE /\ trace' = <<>> /\ lateEvent' = FALSE
    /\ NoInformer
    /\ UNCHANGED <<tmplOK, pods, envSteps>>
    /\ UNCHANGED call

\* The 120 s of the cycle's ctx run out while Run is active.
DeadlineExpires ==
    /\ pc \in {"decode", "get", "create", "wait", "delete"} /\ ~expired
    /\ expired' = TRUE
    /\ UNCHANGED <<cycle, pc, result, tmplOK, pods, podName, deferred, trace,
                   envSteps, lateEvent>>
    /\ UNCHANGED infVars
    /\ UNCHANGED call

\* A return statement of Run: the deferred cleanupPod runs first, if registered.
Return(res, d) ==
    /\ result' = res
    /\ pc' = IF d THEN "defer" ELSE "returned"

RunDecode ==
    /\ pc = "decode"
    /\ trace' = Append(trace, [op |-> "decode",
                               out |-> IF tmplOK THEN "ok" ELSE "err"])
    /\ IF tmplOK THEN pc' = "get" /\ result' = result
                 ELSE Return("decodeErr", deferred)
    /\ UNCHANGED <<cycle, expired, tmplOK, pods, podName, deferred, envSteps,
                   lateEvent>>
    /\ UNCHANGED infVars
    /\ UNCHANGED call

\* (the self-lookup's error is not checked)
RunGetIgnoresError ==
    /\ pc = "get"
    /\ \E apiOK \in BOOLEAN :
         LET out == IF apiOK /\ ~expired /\ ParentName \in Names(pods)
                    THEN "ok" ELSE "err" IN
         /\ trace' = Append(trace, [op |-> "get", out |-> out])
         /\ pc' = "create" /\ result' = result
    /\ UNCHANGED <<cycle, expired, tmplOK, pods, podName, deferred, envSteps,
                   lateEvent>>
    /\ UNCHANGED infVars
    /\ UNCHANGED call

RunGet ==
    /\ pc = "get"
    /\ \E apiOK \in BOOLEAN :
         LET out == IF apiOK /\ ~expired /\ ParentName \in Names(pods)
                    THEN "ok" ELSE "err" IN
         /\ trace' = Append(trace, [op |-> "get", out |-> out])
         /\ IF out = "ok" THEN pc' = "create" /\ result' = result
                          ELSE Return("getErr", deferred)
    /\ UNCHANGED <<cycle, expired, tmplOK, pods, podName, deferred, envSteps,
                   lateEvent>>
    /\ UNCHANGED infVars
    /\ UNCHANGED call

\* (pod is used although the create call failed)
RunCreateIgnoresError ==
    /\ pc = "create"
    /\ \E apiOK \in BOOLEAN :
         LET name == configurePodName(ParentName)
             out == IF apiOK /\ ~expired /\ name \notin Names(pods)
                    THEN "ok" ELSE "err"
             new == [name |-> name, ip |-> NoIP] IN
         /\ trace' = Append(trace, [op |-> "create", out |-> out])
         /\ deferred' = TRUE
         /\ pods' = IF out = "ok" THEN pods \cup {new} ELSE pods
         /\ podName' = name
         /\ watchCh' = watchCh
         /\ pc' = "wait" /\ result' = result
    /\ UNCHANGED <<cycle, expired, tmplOK, envSteps, lateEvent>>
    /\ UNCHANGED <<chanC, closer, reflector, resyncer, fifo, indexer, until,
                   pending, handler, delivered>>
    /\ UNCHANGED call

RunCreate ==
    /\ pc = "create"
    /\ \E apiOK \in BOOLEAN :
         LET name == configurePodName(ParentName)
             out == IF apiOK /\ ~expired /\ name \notin Names(pods)
                    THEN "ok" ELSE "err"
             new == [name |-> name, ip |-> NoIP] IN
         /\ trace' = Append(trace, [op |-> "create", out |-> out])
         /\ deferred' = deferRegistered(out)
         /\ IF out = "ok"
            THEN /\ pods' = pods \cup {new}
                 /\ podName' = name
                 /\ watchCh' = Watched(Event("added", new))
                 /\ pc' = "wait" /\ result' = result
            ELSE /\ Return("createErr", deferRegistered(out))
                 /\ UNCHANGED <<pods, podName, watchCh>>
    /\ UNCHANGED <<cycle, expired, tmplOK, envSteps, lateEvent>>
    /\ UNCHANGED <<chanC, closer, reflector, resyncer, fifo, indexer, until,
                   pending, handler, delivered>>
    /\ UNCHANGED call

\* err = Pods(ns).Delete(ctx, pod.Name); return nil or "deleting patient pod"
RunDeleteSkipped ==
    /\ pc = "delete"
    /\ trace' = Append(trace, [op |-> "delete", out |-> "ok"])
    /\ Return("nil", deferred)
    /\ UNCHANGED <<cycle, expired, tmplOK, pods, podName, deferred, envSteps,
                   lateEvent>>
    /\ UNCHANGED infVars
    /\ UNCHANGED call

RunDelete ==
    /\ pc = "delete"
    /\ \E apiOK \in BOOLEAN :
         LET out == DeleteOut(pods, podName, apiOK /\ ~expired) IN
         /\ trace' = Append(trace, [op |-> "delete", out |-> out])
         /\ pods' = DeleteEffect(pods, podName, out)
         /\ watchCh' = IF out = "ok"
                       THEN Watched(Event("deleted", PodOf(pods, podName)))
                       ELSE watchCh
         /\ Return(IF out = "ok" THEN "nil" ELSE "deleteErr", deferred)
    /\ UNCHANGED <<cycle, expired, tmplOK, podName, deferred, envSteps,
                   lateEvent>>
    /\ UNCHANGED <<chanC, closer, reflector, resyncer, fifo, indexer, until,
                   pending, handler, delivered>>
    /\ UNCHANGED call

\* (the cleanup delete is tried again after it failed)
cleanupPodRetries ==
    /\ pc = "defer"
    /\ \E apiOK \in BOOLEAN :
         LET out == DeleteOut(pods, podName, apiOK) IN
         /\ trace' = Append(trace, [op |-> "cleanup", out |-> out])
         /\ pods' = DeleteEffect(pods, podName, out)
         /\ watchCh' = watchCh
         /\ result' = result
         /\ pc' = IF out = "err" /\ Len(trace) < 7 THEN "defer" ELSE "returned"
    /\ UNCHANGED <<cycle, expired, tmplOK, podName, deferred, envSteps,
                   lateEvent>>
    /\ UNCHANGED <<chanC, closer, reflector, resyncer, fifo, indexer, until,
                   pending, handler, delivered>>
    /\ UNCHANGED call

\* The deferred call: a delete under a fresh 10 s context, its error only logged.
cleanupPod ==
    /\ pc = "defer"
    /\ \E apiOK \in BOOLEAN :
         LET out == DeleteOut(pods, podName, apiOK) IN
         /\ trace' = Append(trace, [op |-> "cleanup", out |-> out])
         /\ pods' = DeleteEffect(pods, podName, out)
         /\ watchCh' = IF out = "ok"
                       THEN Watched(Event("deleted", PodOf(pods, podName)))
                       ELSE watchCh
         /\ result' = cleanupPodResult(result, out)
    /\ pc' = "returned"
    /\ UNCHANGED <<cycle, expired, tmplOK, podName, deferred, envSteps,
                   lateEvent>>
    /\ UNCHANGED <<chanC, closer, reflector, resyncer, fifo, indexer, until,
                   pending, handler, delivered>>
    /\ UNCHANGED call

\* Back in RunScheduled: the error is logged, cancel() is called.
RunReturned ==
    /\ pc = "returned"
    /\ pc' = "tick"
    /\ UNCHANGED <<cycle, result, expired, tmplOK, pods, podName, deferred,
                   trace, envSteps, lateEvent>>
    /\ UNCHANGED infVars
    /\ UNCHANGED call

----------------------------------------------------------------------------
\* waitForIP and the informer it runs.

\* c := make(chan struct{}); informer with the three handlers; informer.Run(c)
waitForIPStart ==
    /\ pc = "wait" /\ chanC = "none"
    /\ chanC' = "open" /\ closer' = "wait" /\ reflector' = "list"
    /\ until' = "pop" /\ handler' = "idle"
    /\ resyncer' = FALSE /\ watchCh' = <<>> /\ fifo' = <<>> /\ indexer' = {}
    /\ pending' = <<>> /\ delivered' = 0
    /\ UNCHANGED <<cycle, pc, result, expired, tmplOK, pods, podName, deferred,
                   trace, envSteps, lateEvent>>
    /\ UNCHANGED call

\* informer.Run(c) has returned: the statement after it is reached.
informerRunReturnedOnSignal == chanC = "open" /\ delivered >= 1
informerRunReturned == chanC = "open" /\ handler = "stopped"

\* return nil, then the deferred close(c), which releases a waiting receiver.
waitForIPReturn ==
    /\ pc = "wait" /\ informerRunReturned
    /\ trace' = Append(trace, [op |-> "wait", out |-> "ok"])
    /\ chanC' = "closed"
    /\ closer' = IF closer = "wait" THEN "done" ELSE closer
    /\ pc' = "delete"
    /\ UNCHANGED <<cycle, result, expired, tmplOK, pods, podName, deferred,
                   envSteps, lateEvent>>
    /\ UNCHANGED <<reflector, resyncer, watchCh, fifo, indexer, until, pending,
                   handler, delivered>>
    /\ UNCHANGED call

\* Reflector.ListAndWatch: list, Replace into the DeltaFIFO (objects of the
\* store that are no longer listed become DeletedFinalStateUnknown), watch.
ReflectorList ==
    /\ reflector = "list"
    /\ LET gone == {q \in indexer : q.name \notin Names(pods)} IN
       fifo' = fifo \o SeqOf({Event("sync", p) : p \in pods})
                    \o SeqOf({[type |-> "deleted", obj |-> q, tomb |-> TRUE] :
                              q \in gone})
    /\ reflector' = "watch" /\ resyncer' = TRUE /\ watchCh' = <<>>
    /\ UNCHANGED <<cycle, pc, result, expired, tmplOK, pods, podName, deferred,
                   trace, envSteps, lateEvent>>
    /\ UNCHANGED <<chanC, closer, indexer, until, pending, handler, delivered>>
    /\ UNCHANGED call

\* watchHandler: one event of the watch goes into the DeltaFIFO.
ReflectorWatch ==
    /\ reflector = "watch" /\ watchCh # <<>>
    /\ fifo' = Append(fifo, Head(watchCh))
    /\ watchCh' = Tail(watchCh)
    /\ UNCHANGED <<cycle, pc, result, expired, tmplOK, pods, podName, deferred,
                   trace, envSteps, lateEvent>>
    /\ UNCHANGED <<chanC, closer, reflector, resyncer, indexer, until, pending,
                   handler, delivered>>
    /\ UNCHANGED call

\* processLoop: Pop one delta, HandleDeltas, distribute to the listener.
ProcessLoopPop ==
    /\ until = "pop" /\ fifo # <<>>
    /\ pending' = Append(pending, Notification(Head(fifo)))
    /\ indexer' = Stored(Head(fifo))
    /\ fifo' = Tail(fifo)
    /\ UNCHANGED <<cycle, pc, result, expired, tmplOK, pods, podName, deferred,
                   trace, envSteps, lateEvent>>
    /\ UNCHANGED <<chanC, closer, reflector, resyncer, watchCh, until, handler,
                   delivered>>
    /\ UNCHANGED call

\* Pop on the closed, empty queue: ErrFIFOClosed, processLoop returns and
\* wait.Until selects on stopCh and its one-second timer.
ProcessLoopClosed ==
    /\ until = "pop" /\ fifo = <<>> /\ closer = "done"
    /\ until' = "sleep"
    /\ UNCHANGED <<cycle, pc, result, expired, tmplOK, pods, podName, deferred,
                   trace, envSteps, lateEvent>>
    /\ UNCHANGED <<chanC, closer, reflector, resyncer, watchCh, fifo, indexer,
                   pending, handler, delivered>>
    /\ UNCHANGED call

\* The timer of wait.Until fires and no sender is waiting on stopCh.
UntilTimer ==
    /\ until = "sleep" /\ handler # "sending"
    /\ until' = "pop"
    /\ UNCHANGED <<cycle, pc, result, expired, tmplOK, pods, podName, deferred,
                   trace, envSteps, lateEvent>>
    /\ UNCHANGED <<chanC, closer, reflector, resyncer, watchCh, fifo, indexer,
                   pending, handler, delivered>>
    /\ UNCHANGED call

\* The backoff timer of the reflector's BackoffUntil fires: list again.
ReflectorBackoffTimer ==
    /\ reflector = "backoff" /\ handler # "sending"
    /\ reflector' = "list"
    /\ UNCHANGED <<cycle, pc, result, expired, tmplOK, pods, podName, deferred,
                   trace, envSteps, lateEvent>>
    /\ UNCHANGED <<chanC, closer, resyncer, watchCh, fifo, indexer, until,
                   pending, handler, delivered>>
    /\ UNCHANGED call

\* The process has panicked.
Crash ==
    /\ pc' = "crashed"
    /\ chanC' = chanC /\ closer' = "none" /\ reflector' = "none"
    /\ resyncer' = FALSE /\ watchCh' = <<>> /\ fifo' = <<>> /\ indexer' = {}
    /\ until' = "none" /\ pending' = <<>> /\ handler' = "none"
    /\ delivered' = delivered

\* The listener goroutine calls AddFunc / UpdateFunc / DeleteFunc on the next
\* notification.  DeleteFunc asserts deadObj.(*apiv1.Pod), which panics on a
\* DeletedFinalStateUnknown; checkForIP sends on c, which panics once c is closed.
HandlerCall ==
    /\ handler = "idle" /\ pending # <<>>
    /\ LET n == Head(pending) IN
       IF n.tomb \/ (checkForIP(n.obj, podName) /\ chanC = "closed")
       THEN Crash
       ELSE /\ handler' = IF checkForIP(n.obj, podName) THEN "sending" ELSE "idle"
            /\ pending' = Tail(pending)
            /\ UNCHANGED <<pc, chanC, closer, reflector, resyncer, watchCh, fifo,
                           indexer, until, delivered>>
    /\ UNCHANGED <<cycle, result, expired, tmplOK, pods, podName, deferred,
                   trace, envSteps, lateEvent>>
    /\ UNCHANGED call

\* The value sent by the handler is received by one goroutine selecting on c.
Received ==
    /\ handler = "sending" /\ delivered < MaxSignals
    /\ handler' = "idle"
    /\ delivered' = delivered + 1
    /\ UNCHANGED <<cycle, pc, result, expired, tmplOK, pods, podName, deferred,
                   trace, envSteps, lateEvent>>
    /\ UNCHANGED <<chanC, fifo, indexer, pending>>
    /\ UNCHANGED call

\* go func() { <-stopCh; c.config.Queue.Close() }()
CloserRecv ==
    /\ Received /\ closer = "wait"
    /\ closer' = "done"
    /\ UNCHANGED <<reflector, resyncer, watchCh, until>>

\* The resync goroutine of ListAndWatch returns.
ResyncerRecv ==
    /\ Received /\ resyncer
    /\ resyncer' = FALSE
    /\ UNCHANGED <<closer, reflector, watchCh, until>>

\* ListAndWatch returns on stopCh; BackoffUntil then waits for stopCh or its timer.
ReflectorRecv ==
    /\ Received /\ reflector \in {"list", "watch"}
    /\ reflector' = "backoff" /\ resyncer' = FALSE /\ watchCh' = <<>>
    /\ UNCHANGED <<closer, until>>

\* BackoffUntil returns on stopCh: Reflector.Run is over.
BackoffRecv ==
    /\ Received /\ reflector = "backoff"
    /\ reflector' = "stopped"
    /\ UNCHANGED <<closer, resyncer, watchCh, until>>

\* wait.Until returns on stopCh: the process loop is over.
UntilRecv ==
    /\ Received /\ until = "sleep"
    /\ until' = "stopped"
    /\ UNCHANGED <<closer, reflector, resyncer, watchCh>>

\* controller.Run has returned; the processor closes the listener, whose
\* goroutines end once no handler call is in progress: informer.Run returns.
informerRunExit ==
    /\ until = "stopped" /\ reflector = "stopped" /\ handler = "idle"
    /\ handler' = "stopped" /\ pending' = <<>>
    /\ UNCHANGED <<cycle, pc, result, expired, tmplOK, pods, podName, deferred,
                   trace, envSteps, lateEvent>>
    /\ UNCHANGED <<chanC, closer, reflector, resyncer, watchCh, fifo, indexer,
                   until, delivered>>
    /\ UNCHANGED call

----------------------------------------------------------------------------
\* The rest of the cluster acting on the patient pod.

Children == {p \in pods : p.name # ParentName}

EnvStep ==
    /\ envSteps < MaxEnv
    /\ envSteps' = envSteps + 1
    /\ lateEvent' = (lateEvent \/ chanC = "closed")
    /\ UNCHANGED <<cycle, pc, result, expired, tmplOK, podName, deferred, trace>>
    /\ UNCHANGED <<chanC, closer, reflector, resyncer, fifo, indexer, until,
                   pending, handler, delivered>>
    /\ UNCHANGED call

\* The kubelet reports the pod's address.
EnvAssignIP ==
    /\ EnvStep
    /\ \E p \in Children :
         /\ p.ip = NoIP
         /\ LET q == [p EXCEPT !.ip = ChildIP] IN
            /\ pods' = (pods \ {p}) \cup {q}
            /\ watchCh' = Watched(Event("modified", q))

\* Another status update of the pod; its address stays as it is.
EnvUpdateStatus ==
    /\ EnvStep
    /\ reflector = "watch" \/ chanC = "closed"
    /\ \E p \in Children :
         /\ pods' = pods
         /\ watchCh' = Watched(Event("modified", p))

\* The pod is deleted by someone else (garbage collection, an operator).
EnvDeletePod ==
    /\ EnvStep
    /\ \E p \in Children :
         /\ pods' = pods \ {p}
         /\ watchCh' = Watched(Event("deleted", p))

----------------------------------------------------------------------------
Next ==
    \/ Tick \/ DeadlineExpires
    \/ RunDecode \/ RunGet \/ RunCreate \/ RunDelete \/ cleanupPod \/ RunReturned
    \/ waitForIPStart \/ waitForIPReturn
    \/ ReflectorList \/ ReflectorWatch \/ ReflectorBackoffTimer
    \/ ProcessLoopPop \/ ProcessLoopClosed \/ UntilTimer
    \/ HandlerCall
    \/ CloserRecv \/ ResyncerRecv \/ ReflectorRecv \/ BackoffRecv \/ UntilRecv
    \/ informerRunExit
    \/ EnvAssignIP \/ EnvUpdateStatus \/ EnvDeletePod

Spec == Init /\ [][Next]_vars

\* Scheduling: every goroutine that can take a step eventually takes it, the
\* ticker ticks and time passes.  Nothing is assumed of the rest of the cluster.
FairSpec ==
    /\ Spec
    /\ WF_vars(Tick) /\ WF_vars(DeadlineExpires)
    /\ WF_vars(RunDecode) /\ WF_vars(RunGet) /\ WF_vars(RunCreate)
    /\ WF_vars(RunDelete) /\ WF_vars(cleanupPod) /\ WF_vars(RunReturned)
    /\ WF_vars(waitForIPStart) /\ WF_vars(waitForIPReturn)
    /\ WF_vars(ReflectorList) /\ WF_vars(ReflectorWatch)
    /\ WF_vars(ReflectorBackoffTimer)
    /\ WF_vars(ProcessLoopPop) /\ WF_vars(ProcessLoopClosed) /\ WF_vars(UntilTimer)
    /\ WF_vars(HandlerCall)
    /\ WF_vars(CloserRecv \/ ResyncerRecv \/ ReflectorRecv \/ BackoffRecv
               \/ UntilRecv)
    /\ WF_vars(informerRunExit)

----------------------------------------------------------------------------
\* Reading the calls of the current cycle.

Has(op) == \E i \in 1..Len(trace) : trace[i].op = op
OutOf(op) == IF Has(op)
             THEN trace[CHOOSE i \in 1..Len(trace) : trace[i].op = op].out
             ELSE "skipped"
Created == OutOf("create") = "ok"
ChildPresent == podName \in Names(pods)
ChildHasIP == \E p \in pods : p.name = podName /\ p.ip # NoIP
PrimaryOK == /\ OutOf("decode") = "ok" /\ OutOf("get") = "ok" /\ Created
             /\ OutOf("wait") = "ok" /\ OutOf("delete") = "ok"
InformerStopped == /\ reflector = "stopped" /\ until = "stopped"
                   /\ handler = "stopped" /\ pending = <<>>

----------------------------------------------------------------------------
\* C1 (as claimed): whenever Run returns from a cycle whose create call
\* succeeded, the child pod is absent from the cluster, also when delete calls
\* fail.
C1_AbsentAtReturn == (pc = "returned" /\ Created) => ~ChildPresent

\* C1 (amended): whenever Run returns from a cycle whose create call succeeded,
\* the cleanup guard has issued its delete call, and the child pod is absent
\* unless every delete call of the cycle (the normal-path one and the cleanup
\* guard's) failed with an error other than not-found.
C1_CleanupIssued ==
    (pc = "returned" /\ Created) =>
        /\ OutOf("cleanup") # "skipped"
        /\ ChildPresent =>
             /\ OutOf("delete") \in {"err", "skipped"}
             /\ OutOf("cleanup") = "err"

\* The explicit delete failed and the cleanup guard removed the pod.
C1_Witness ==
    /\ pc = "returned" /\ Created /\ OutOf("delete") = "err"
    /\ OutOf("cleanup") = "ok" /\ ~ChildPresent

\* C2: a created pod that never gets an address is eventually deleted once the
\* cycle's deadline has passed.
C2_DeletedAfterDeadline ==
    (Created /\ expired /\ ChildPresent) ~> (~ChildPresent \/ ChildHasIP)

\* C3: while no event satisfies the predicate, waitForIP does not block past
\* the deadline: Run eventually returns.
C3_WaitTerminates ==
    (pc = "wait" /\ expired) ~>
        (pc = "returned" \/ delivered > 0 \/ handler = "sending")

\* C4: the completion signal is delivered at most once, and after the first
\* signal no later matching event makes a handler send again.
C4_SignalOnce == delivered <= 1 /\ ~(delivered >= 1 /\ handler = "sending")

\* C5: when the one change made to the target pod is the update that gives it
\* its address, a running waitForIP eventually returns (runs in which the
\* cluster changes the pod again, or the explored number of signals is used up,
\* are left aside).
C5_ReturnsOnAddress ==
    (pc = "wait" /\ ChildHasIP /\ envSteps = 1) ~>
        (pc # "wait" \/ envSteps > 1 \/ delivered >= MaxSignals)

\* C6: once waitForIP has returned, the informer is stopped and its handlers
\* process no further event, whatever happens to the pod afterwards.
C6_SubscriptionReleased ==
    /\ [](chanC = "closed" => InformerStopped)
    /\ [][(chanC = "closed" /\ chanC' = "closed") =>
            UNCHANGED <<pending, handler, delivered, fifo, indexer>>]_vars

\* The pod was changed after waitForIP returned.
C6_Witness == chanC = "closed" /\ lateEvent /\ pc = "defer"

\* C7: a cycle in which decode, the self-lookup or create failed issues no
\* delete call, and Run returns that stage's error.
C7_NoDeleteWithoutCreate ==
    ~Created =>
        /\ ~Has("delete") /\ ~Has("cleanup") /\ pc # "defer"
        /\ pc = "returned" => result \in {"decodeErr", "getErr", "createErr"}

\* Run has returned from a cycle whose create call failed.
C7_Witness == pc = "returned" /\ OutOf("create") = "err" /\ result = "createErr"

\* C8: the value Run returns is a function of the outcomes of decode,
\* self-lookup, create, wait and the explicit delete alone.
PrimaryResult ==
    IF OutOf("decode") # "ok" THEN "decodeErr"
    ELSE IF OutOf("get") # "ok" THEN "getErr"
    ELSE IF OutOf("create") # "ok" THEN "createErr"
    ELSE IF OutOf("wait") # "ok" THEN "waitErr"
    ELSE IF OutOf("delete") # "ok" THEN "deleteErr"
    ELSE "nil"
C8_ResultFromPrimaryStages == pc = "returned" => result = PrimaryResult

\* The cleanup guard's delete failed with the pod still there; Run returned the
\* explicit delete's error.
C8_Witness ==
    /\ pc = "returned" /\ OutOf("cleanup") = "err" /\ ChildPresent
    /\ result = "deleteErr"

\* C9: after a cycle whose stages all succeeded, the cleanup guard runs with
\* the pod already absent and Run's value nil, and changes neither.
C9_CleanupIsNoOp ==
    [][(pc = "defer" /\ pc' = "returned" /\ PrimaryOK) =>
         /\ result = "nil" /\ result' = "nil"
         /\ ~ChildPresent /\ pods' = pods
         /\ OutOf("cleanup")' # "ok"]_vars

\* A fully successful cycle has returned; the cleanup delete found no pod.
C9_Witness ==
    /\ pc = "returned" /\ PrimaryOK /\ OutOf("cleanup") = "notfound"
    /\ result = "nil" /\ ~ChildPresent

\* C10: at most one child pod exists at any time, and a call of Run starts only
\* from the ticker loop, after the previous call has returned its value.
C10_OneChildOneCycle ==
    /\ [](Cardinality(Children) <= 1)
    /\ [][cycle' # cycle =>
            (pc = "tick" /\ (cycle > 0 => result # "none"))]_vars

\* The previous cycle left its pod behind and the next cycle's create failed.
C10_Witness ==
    /\ cycle = 2 /\ pc = "returned" /\ OutOf("create") = "err"
    /\ Cardinality(Children) = 1

\* C11: the watcher's subscription exists only in a cycle whose create call
\* has succeeded, and it is started after that call: never before it, never
\* when it failed.
C11_CreateBeforeWatch ==
    /\ [](chanC # "none" => Created)
    /\ [][(chanC = "none" /\ chanC' = "open") =>
            (Created /\ ~Has("wait") /\ Len(trace) = 3)]_vars

\* The subscription is running in a cycle whose pod was created.
C11_Witness == chanC = "open" /\ reflector = "watch" /\ Created /\ ChildPresent

\* C15: the stages run in the order decode, self-lookup, (configure and)
\* create, address-wait, explicit delete, each only after all earlier ones
\* succeeded; Run returns nil exactly when all five succeeded and otherwise the
\* error of the first stage that failed.
Stages == <<"decode", "get", "create", "wait", "delete">>
StageErr(op) == CASE op = "decode" -> "decodeErr" [] op = "get" -> "getErr"
                  [] op = "create" -> "createErr" [] op = "wait" -> "waitErr"
                  [] op = "delete" -> "deleteErr"
IsPrimary(e) == e.op # "cleanup"
Primary == SelectSeq(trace, IsPrimary)
C15_StagesInOrder ==
    LET pr == Primary IN
    /\ Len(pr) <= Len(Stages)
    /\ \A i \in 1..Len(pr) : pr[i].op = Stages[i]
    /\ \A i \in 1..(Len(pr) - 1) : pr[i].out = "ok"
    /\ \A i \in 1..Len(trace) : trace[i].op = "cleanup" => i = Len(trace)
    /\ pc = "returned" /\ cycle > 0 =>
         /\ result = "nil" <=> (Len(pr) = Len(Stages) /\ pr[Len(pr)].out = "ok")
         /\ result # "nil" =>
              (pr[Len(pr)].out # "ok" /\ result = StageErr(pr[Len(pr)].op))

\* Run returned the self-lookup's error and attempted nothing after it.
C15_Witness ==
    /\ pc = "returned" /\ result = "getErr"
    /\ trace = <<[op |-> "decode", out |-> "ok"], [op |-> "get", out |-> "err"]>>

\* C16: within one call of Run the self-lookup, the create, the explicit delete
\* and the cleanup guard's delete are each issued at most once.
Count(op) == Cardinality({i \in 1..Len(trace) : trace[i].op = op})
C16_NoRetries ==
    /\ \A op \in {"decode", "get", "create", "wait", "delete", "cleanup"} :
         Count(op) <= 1
    /\ Count("delete") + Count("cleanup") <= 2

\* Both delete calls failed and neither was repeated.
C16_Witness ==
    /\ pc = "returned" /\ OutOf("delete") = "err" /\ OutOf("cleanup") = "err"
    /\ Count("delete") = 1 /\ Count("cleanup") = 1 /\ ChildPresent

\* The listener's next notification is about the target pod and carries an
\* address.
NextMatches ==
    /\ pending # <<>>
    /\ Head(pending).obj.name = podName /\ Head(pending).obj.ip # NoIP

\* C17: when the handler is about to get a deletion of the target pod that
\* carries its address, waitForIP completes (the explored number of signals
\* aside).
C17_DeleteEventCompletes ==
    (pc = "wait" /\ handler = "idle" /\ NextMatches
       /\ Head(pending).kind = "delete") ~>
        (chanC = "closed" \/ delivered >= MaxSignals)

\* C18: waitForIP returns only after at least one signal, and a signal is sent
\* only by a handler call on an event of the target pod with a non-empty
\* address; no other event makes it return.
C18_NoSpuriousCompletion ==
    /\ [](chanC = "closed" => delivered >= 1)
    /\ [][(handler # "sending" /\ handler' = "sending") => NextMatches]_vars
    /\ [][(delivered' > delivered) => handler = "sending"]_vars

\* The handlers have seen the parent's event and events of the target without
\* an address; nothing was signalled and waitForIP is still waiting.
C18_Witness ==
    /\ cycle = 1 /\ pc = "wait" /\ chanC = "open" /\ delivered = 0
    /\ handler = "idle" /\ pending = <<>> /\ fifo = <<>> /\ watchCh = <<>>
    /\ envSteps >= 1 /\ indexer = pods
    /\ [name |-> podName, ip |-> NoIP] \in pods

----------------------------------------------------------------------------
\* The package's functions taken alone: one call on an argument drawn from a
\* bounded set, Run being idle.

RunIdle ==
    /\ cycle = 0 /\ pc = "tick" /\ result = "none" /\ expired = FALSE
    /\ tmplOK = TRUE
    /\ pods = {[name |-> ParentName, ip |-> ParentIP]}
    /\ podName = "" /\ deferred = FALSE /\ trace = <<>> /\ envSteps = 0
    /\ chanC = "none" /\ closer = "none" /\ reflector = "none"
    /\ resyncer = FALSE /\ watchCh = <<>> /\ fifo = <<>> /\ indexer = {}
    /\ until = "none" /\ pending = <<>> /\ handler = "none"
    /\ delivered = 0 /\ lateEvent = FALSE

RECURSIVE SeqsUpTo(_, _)
SeqsUpTo(S, n) ==
    IF n = 0 THEN {<<>>}
    ELSE LET shorter == SeqsUpTo(S, n - 1) IN
         shorter \cup {Append(t, x) : t \in shorter, x \in S}

Addresses == SeqsUpTo({"1", "2", "."}, MaxAddrLen)

HostnameInit ==
    /\ RunIdle
    /\ \E ip \in Addresses :
         call = [fn |-> "getPodSDHostname", in |-> ip, out |-> Pending,
                 done |-> FALSE]

getPodSDHostnameCall ==
    /\ call.fn = "getPodSDHostname" /\ ~call.done
    /\ call' = [call EXCEPT !.done = TRUE, !.out = getPodSDHostname(call.in)]
    /\ UNCHANGED runVars

HostnameNext == getPodSDHostnameCall
HostnameSpec == HostnameInit /\ [][HostnameNext]_vars

\* C12: for every address string, the hostname is the address with every "."
\* replaced by "-", followed by the fixed suffix.
C12_EveryDotReplaced ==
    (call.fn = "getPodSDHostname" /\ call.done) =>
        call.out = [i \in 1..Len(call.in) |->
                       IF call.in[i] = "." THEN "-" ELSE call.in[i]] \o SDSuffix

----------------------------------------------------------------------------
\* configurePod on its own.

StaleEnv == << [name |-> "KUBENURSE_SERVICE_URL", value |-> <<"stale">>] >>
Containers ==
    [name : {"main"}, image : {"", "busybox"}, args : {<<>>, <<"serve">>},
     env : {<<>>, StaleEnv}]
PodTemplates ==
    [name : {"", "tmpl"}, owners : {<<>>},
     containers : SeqsUpTo(Containers, MaxContainers), volumes : {<<>>}]
Parents ==
    [name : {ParentName}, uid : {"uid-1"},
     ip : {<<"1", "0", ".", "0", ".", "0", ".", "1">>,
           <<"1", "0", ".", "0", ".", "0", ".", "2">>}]
Spawners ==
    [PatientNamespace : {"kube-system"}, PatientImage : {"kubenurse:1", "kubenurse:2"},
     ServiceURL : {<<"http://svc">>}, IngressURL : {<<"http://ing">>}]

ConfigureInit ==
    /\ RunIdle
    /\ \E spw \in Spawners, tmpl \in PodTemplates, parent \in Parents :
         call = [fn |-> "configurePod",
                 in |-> [spw |-> spw, tmpl |-> tmpl, parent |-> parent],
                 out |-> Pending,
                 done |-> FALSE]

configurePodCall ==
    /\ call.fn = "configurePod" /\ ~call.done
    /\ call' = [call EXCEPT !.done = TRUE,
                  !.out = configurePod(call.in.spw, call.in.tmpl, call.in.parent)]
    /\ UNCHANGED runVars

ConfigureNext == configurePodCall
ConfigureSpec == ConfigureInit /\ [][ConfigureNext]_vars

Configured == call.fn = "configurePod" /\ call.done

\* C13: after configurePod the first container's image is the configured
\* PatientImage and its environment is exactly the four entries direct URL,
\* DNS URL, ingress URL, service URL, in that order, whatever the template
\* declared.
C13_ImageAndEnvReplaced ==
    Configured =>
        LET first == call.out.containers[1]
            spw == call.in.spw
            ip == call.in.parent.ip IN
        /\ first.image = spw.PatientImage
        /\ Len(first.env) = 4
        /\ first.env[1] = [name |-> "KUBENURSE_DIRECT_URL",
                           value |-> <<"http://">> \o ip \o <<":8080">>]
        /\ first.env[2] = [name |-> "KUBENURSE_DNS_URL",
                           value |-> <<"http://">> \o getPodSDHostname(ip)
                                        \o <<":8080">>]
        /\ first.env[3] = [name |-> "KUBENURSE_INGRESS_URL",
                           value |-> spw.IngressURL]
        /\ first.env[4] = [name |-> "KUBENURSE_SERVICE_URL",
                           value |-> spw.ServiceURL]

C13_Witness ==
    /\ Configured
    /\ Len(call.in.tmpl.containers) = 2
    /\ call.in.tmpl.containers[1].image = "busybox"
    /\ call.in.tmpl.containers[1].env = StaleEnv
    /\ call.out.containers[1].image = "kubenurse:2"
    /\ call.out.containers[1].env[2].value =
         <<"http://", "1", "0", "-", "0", "-", "0", "-", "2",
           ".default.pod.cluster.local", ":8080">>

\* C19: with zero containers in the template configurePod synthesizes exactly
\* one container named "patient" with the single argument "patient"; with one
\* or more it keeps their number, every container after the first, and the
\* first container's fields other than image and environment.
C19_ContainersFramed ==
    Configured =>
        LET before == call.in.tmpl.containers
            after == call.out.containers IN
        IF Len(before) = 0
        THEN /\ Len(after) = 1
             /\ after[1].name = "patient"
             /\ after[1].args = <<"patient">>
        ELSE /\ Len(after) = Len(before)
             /\ \A i \in 2..Len(before) : after[i] = before[i]
             /\ after[1].name = before[1].name
             /\ after[1].args = before[1].args

C19_Witness ==
    /\ Configured
    /\ Len(call.in.tmpl.containers) = 2
    /\ call.in.tmpl.containers[2].env = StaleEnv
    /\ call.in.tmpl.containers[1].args = <<"serve">>
    /\ call.out.containers[2] = call.in.tmpl.containers[2]
    /\ call.out.containers[1] # call.in.tmpl.containers[1]

----------------------------------------------------------------------------
\* decodePodTemplate on its own.

Claims == {"nfs-check", "data"}
Volumes == [name : {"nfs-check"}, claimName : Claims]
Documents ==
    [bytes : {"doc"}, wellFormed : BOOLEAN,
     kind : {"", "Pod", "Service", "Bogus"},
     name : {""}, containers : SeqsUpTo({ZeroContainer}, 1),
     volumes : SeqsUpTo(Volumes, MaxVolumes), unknownField : BOOLEAN]
Templates == {[bytes |-> "nil"], [bytes |-> "empty"]} \cup Documents

DecodeInit ==
    /\ RunIdle
    /\ \E tmpl \in Templates :
         call = [fn |-> "decodePodTemplate", in |-> tmpl, out |-> Pending,
                 done |-> FALSE]

decodePodTemplateCall ==
    /\ call.fn = "decodePodTemplate" /\ ~call.done
    /\ call' = [call EXCEPT !.done = TRUE, !.out = decodePodTemplate(call.in)]
    /\ UNCHANGED runVars

DecodeNext == decodePodTemplateCall
DecodeSpec == DecodeInit /\ [][DecodeNext]_vars

\* C14: decodePodTemplate of nil or empty input returns a zero-valued pod and
\* no error; of a valid Pod document, a pod whose declared fields (a volume's
\* claim name among them) equal the document's.
C14_DecodeEmptyAndValid ==
    (call.fn = "decodePodTemplate" /\ call.done) =>
        /\ call.in.bytes \in {"nil", "empty"} =>
             call.out = [pod |-> ZeroPod, err |-> "nil"]
        /\ (call.in.bytes = "doc" /\ call.in.wellFormed /\ call.in.kind = "Pod") =>
             /\ call.out.err = "nil"
             /\ call.out.pod.name = call.in.name
             /\ call.out.pod.containers = call.in.containers
             /\ Len(call.out.pod.volumes) = Len(call.in.volumes)
             /\ \A i \in 1..Len(call.in.volumes) :
                  /\ call.out.pod.volumes[i].name = call.in.volumes[i].name
                  /\ call.out.pod.volumes[i].claimName =
                       call.in.volumes[i].claimName

C14_Witness ==
    /\ call.fn = "decodePodTemplate" /\ call.done
    /\ call.in.bytes = "doc" /\ call.in.kind = "Pod"
    /\ Len(call.in.containers) = 1
    /\ Len(call.in.volumes) = 2
    /\ call.in.unknownField
    /\ call.out.err = "nil"
    /\ call.out.pod.volumes[1].claimName = "nfs-check"

----------------------------------------------------------------------------
\* The values Run works on, cycle after cycle: the Spawner, the pod decoded
\* from its template (tmpPod), the parent record fetched (parentPod) and the
\* pod handed to Create.  seen is the parent record of the cluster at the Get
\* of the cycle.

PodDocument ==
    [bytes |-> "doc", wellFormed |-> TRUE, kind |-> "Pod", name |-> "",
     containers |-> << ZeroContainer >>,
     volumes |-> << [name |-> "nfs-check", claimName |-> "nfs-check"] >>,
     unknownField |-> FALSE]
CycleSpawners ==
    [PatientNamespace : {"kube-system"}, PatientImage : {"kubenurse:1", "kubenurse:2"},
     ServiceURL : {<<"http://svc">>}, IngressURL : {<<"http://ing">>},
     PodTemplate : {[bytes |-> "nil"], PodDocument,
                    [PodDocument EXCEPT !.kind = "Service"]}]

CycleInit ==
    /\ RunIdle
    /\ \E spw \in CycleSpawners, parent \in Parents :
         call = [fn |-> "Run", spw |-> spw, at |-> "tick", n |-> 0,
                 parent |-> parent, tmpPod |-> ZeroPod, parentPod |-> parent,
                 seen |-> parent, requests |-> <<>>]

\* RunScheduled: the next tick calls spw.Run
CycleTick ==
    /\ call.fn = "Run" /\ call.at = "tick" /\ call.n < MaxCycles
    /\ call' = [call EXCEPT !.at = "decode", !.n = @ + 1]
    /\ UNCHANGED runVars

\* Run: tmpPod, err := decodePodTemplate(spw.PodTemplate)
CycleDecode ==
    /\ call.fn = "Run" /\ call.at = "decode"
    /\ LET r == decodePodTemplate(call.spw.PodTemplate) IN
       call' = IF r.err = "nil"
               THEN [call EXCEPT !.at = "get", !.tmpPod = r.pod]
               ELSE [call EXCEPT !.at = "tick"]
    /\ UNCHANGED runVars

\* (the parent record of the first cycle is kept for the later ones)
CycleGetCached ==
    /\ call.fn = "Run" /\ call.at = "get"
    /\ \E ok \in BOOLEAN :
         call' = IF ok
                 THEN [call EXCEPT !.at = "configure",
                                   !.parentPod = IF call.requests # <<>>
                                                 THEN @ ELSE call.parent,
                                   !.seen = call.parent]
                 ELSE [call EXCEPT !.at = "tick"]
    /\ UNCHANGED runVars

\* Run: parentPod, err := clientset.CoreV1().Pods(ns).Get(ctx, myName, ...)
CycleGet ==
    /\ call.fn = "Run" /\ call.at = "get"
    /\ \E ok \in BOOLEAN :
         call' = IF ok
                 THEN [call EXCEPT !.at = "configure",
                                   !.parentPod = call.parent,
                                   !.seen = call.parent]
                 ELSE [call EXCEPT !.at = "tick"]
    /\ UNCHANGED runVars

CycleConfigure ==
    /\ call.fn = "Run" /\ call.at = "configure"
    /\ call' = [call EXCEPT
                  !.at = "create",
                  !.tmpPod = configurePod(call.spw, call.tmpPod, call.parentPod)]
    /\ UNCHANGED runVars

\* Run: Create(ctx, tmpPod, ...); the rest of the cycle does not touch the values
CycleCreate ==
    /\ call.fn = "Run" /\ call.at = "create"
    /\ call' = [call EXCEPT
                  !.at = "tick",
                  !.requests = Append(@, [seen |-> call.seen,
                                          pod |-> call.tmpPod])]
    /\ UNCHANGED runVars

\* The cluster: the parent pod is given another address.
ParentChanges ==
    /\ call.fn = "Run"
    /\ \E parent \in Parents \ {call.parent} :
         call' = [call EXCEPT !.parent = parent]
    /\ UNCHANGED runVars

CycleNext ==
    \/ CycleTick
    \/ CycleDecode
    \/ CycleGet
    \/ CycleConfigure
    \/ CycleCreate
    \/ ParentChanges
CycleSpec == CycleInit /\ [][CycleNext]_vars

\* C20: cycles share no mutable state: no step of a cycle changes a field of
\* the Spawner, and the pod handed to Create in a cycle is the template,
\* decoded again, configured from the static configuration and the parent
\* record fetched in that cycle, whatever the earlier cycles worked on.
C20_CyclesIndependent ==
    /\ [][call'.spw = call.spw]_vars
    /\ [](\A i \in 1..Len(call.requests) :
             call.requests[i].pod =
                 configurePod(call.spw,
                              decodePodTemplate(call.spw.PodTemplate).pod,
                              call.requests[i].seen))

C20_Witness ==
    /\ call.fn = "Run" /\ call.at = "tick"
    /\ Len(call.requests) = 2
    /\ call.requests[1].seen # call.requests[2].seen
    /\ call.requests[1].pod # call.requests[2].pod
    /\ call.requests[2].pod.volumes[1].claimName = "nfs-check"

====
